---- MODULE Spec2Model ----
(***************************************************************************)
(* mdns-publisher: the Avahi CNAME publisher (mpublisher/mpublisher.py)    *)
(* and the service loop that owns it (mpublisher/cname_service.py).        *)
(*                                                                         *)
(* The process is single-threaded.  Every step below holds at most one     *)
(* D-Bus round trip, so a signal (delivered by CPython between two         *)
(* bytecodes) and a restart of the Avahi daemon can fall between any two   *)
(* round trips.  The Avahi daemon is the environment: it is up or down,    *)
(* it keeps the entry groups, and it answers every call with success or    *)
(* with a D-Bus error.                                                     *)
(*                                                                         *)
(* Spec        the service loop main() with signals.                       *)
(* EngineSpec  one AvahiPublisher whose methods are called in any order.   *)
(***************************************************************************)
EXTENDS Integers, Sequences, FiniteSets, TLC

VARIABLES
    up,         \* the Avahi daemon owns its D-Bus name
    outages,    \* how many times the daemon has gone away
    faults,     \* how many unexpected D-Bus errors were injected
    groups,     \* the daemon's entry groups: id -> [st, alias]
    published,  \* per AvahiPublisher instance: self.published, name -> group id (0: no key)
    publisher,  \* main(): the local variable publisher (0: None)
    handler,    \* the instance each signal's handler is bound to (0: default action)
    pc,         \* the position of the process
    ret,        \* where the running method returns to
    self,       \* the instance the running method acts on
    i,          \* main(): index of the for loop over args.cnames
    grp,        \* publish_cname: the local variable group (0: unset)
    todo,       \* __del__: the names whose group the iteration has not visited
    op,         \* the method running or last run: [name, arg, force]
    calls,      \* the D-Bus calls and log lines of op so far: <<method, name, group, outcome>>
    result,     \* what op returned or raised: [kind, val, n]
    pubBefore,  \* self.published when op was called
    cnames,     \* args.cnames
    force,      \* args.force
    failed,     \* main(): indices of this batch logged as "Failed to publish"
    outcome,    \* main(): per index of this batch, what the collision check resolved
    text,       \* a hostname argument of the command line, as typed (character codes)
    norm,       \* what local_hostname_arg made of text: [st, val]
    rdata       \* what _fqdn_to_rdata made of the accepted name: [st, val]

vars == <<up, outages, faults, groups, published, publisher, handler, pc, ret,
          self, i, grp, todo, op, calls, result, pubBefore, cnames, force,
          failed, outcome, text, norm, rdata>>

encVars == <<text, norm, rdata>>
envVars == <<up, outages, faults, groups>>
mainVars == <<publisher, handler, i, cnames, force, failed, outcome>>

(***************************************************************************)
(* Bounds of the model.                                                    *)
(***************************************************************************)
MaxCnames == 2
MaxOutages == 1
MaxFaults == 1
MaxGroups == 3

Names == {"a.local", "b.local", "c.local"}
Signals == {"SIGTERM", "SIGINT", "SIGQUIT"}
SignalOrder_Missing == <<"SIGTERM", "SIGINT", "SIGINT">>
SignalOrder == <<"SIGTERM", "SIGINT", "SIGQUIT">>
GroupIds == 1..MaxGroups
MaxEngines == MaxOutages + 1
Engines == 1..MaxEngines

LocalIdentity == "host.local"
ThirdParty == "other.local"
None == "None"

NoKeys == [n \in Names |-> 0]
FreeGroup == [st |-> "free", alias |-> "-"]
DeadGroup == [st |-> "dead", alias |-> "-"]
EmptyGroup == [st |-> "empty", alias |-> "-"]

Unset == [st |-> "unset", val |-> <<>>]
NoOp == [name |-> "-", arg |-> "-", force |-> FALSE]
NoResult == [kind |-> "none", val |-> "-", n |-> 0]
Returned(v) == [kind |-> "return", val |-> v, n |-> 0]
ReturnedInt(k) == [kind |-> "return", val |-> "int", n |-> k]
Raised(e) == [kind |-> "raise", val |-> e, n |-> 0]

Terminal == {"exited", "crashed", "killed"}

(***************************************************************************)
(* The naming service (the environment).                                   *)
(***************************************************************************)
\* The outcome of a call on the server object.
ServerOutcomes ==
    IF ~up THEN {"ServiceUnknown"}
    ELSE {"ok"} \cup (IF faults < MaxFaults THEN {"Other"} ELSE {})

\* The outcome of a call on the entry group g: a group that went away with
\* a daemon that is up again is an unknown object.
GroupOutcomes(g) ==
    IF ~up THEN {"ServiceUnknown"}
    ELSE IF groups[g].st \in {"dead", "free"} THEN {"UnknownObject"}
    ELSE {"ok"} \cup (IF faults < MaxFaults THEN {"Other"} ELSE {})

\* The outcome of ResolveHostName: an owner, no answer, or an error.
ResolveOutcomes ==
    IF ~up THEN {"ServiceUnknown"}
    ELSE {"self", "other", "Timeout"} \cup (IF faults < MaxFaults THEN {"Other"} ELSE {})

Fault(o) == IF o = "Other" THEN faults + 1 ELSE faults

ServiceDown ==
    /\ up
    /\ outages < MaxOutages
    /\ pc \notin Terminal
    /\ up' = FALSE
    /\ outages' = outages + 1
    /\ groups' = [g \in GroupIds |->
                    IF groups[g].st = "free" THEN groups[g] ELSE DeadGroup]
    /\ UNCHANGED <<faults, published, publisher, handler, pc, ret, self, i, grp,
                   todo, op, calls, result, pubBefore, cnames, force, failed, outcome>>
    /\ UNCHANGED encVars

ServiceUp ==
    /\ ~up
    /\ pc \notin Terminal
    /\ up' = TRUE
    /\ UNCHANGED <<outages, faults, groups, published, publisher, handler, pc, ret,
                   self, i, grp, todo, op, calls, result, pubBefore, cnames, force,
                   failed, outcome>>
    /\ UNCHANGED encVars

(***************************************************************************)
(* AvahiPublisher.                                                         *)
(***************************************************************************)
Keys(pub) == {n \in Names : pub[n] # 0}

\* count(): len(self.published)
Count(pub) == Cardinality(Keys(pub))

\* resolve(): the owner in the response, None on any D-Bus error.
Resolve(o) ==
    IF o = "self" THEN LocalIdentity
    ELSE IF o = "other" THEN ThirdParty
    ELSE None

\* A collision check that never reports a conflict.
CollisionVerdict_NoConflict(current_owner, hostname) ==
    IF current_owner # None THEN "warn" ELSE "free"

\* A collision check that leaves out the comparison with self.hostname.
CollisionVerdict_AnyOwner(current_owner, hostname) ==
    IF current_owner # None THEN "conflict" ELSE "free"

\* publish_cname, the collision check on the resolved owner.
CollisionVerdict(current_owner, hostname) ==
    IF current_owner # None
    THEN IF current_owner # hostname THEN "conflict" ELSE "warn"
    ELSE "free"

\* An available() that answers False to every error.
AvailableResult_SwallowAll(o) ==
    IF o = "ok" THEN Returned("True") ELSE Returned("False")

\* available(): the value for the outcome of GetVersionString.
AvailableResult(o) ==
    IF o = "ok" THEN Returned("True")
    ELSE IF o # "ServiceUnknown" THEN Raised(o)
    ELSE Returned("False")

\* A teardown that swallows every error of Reset.
DelOnError_SwallowAll(o) == "swallow"

\* __del__: what an error of Reset does to the teardown.
DelOnError(o) == IF o # "ServiceUnknown" THEN "raise" ELSE "swallow"

\* publish_cname: self.published[cname] = group
Inserted(pub, cname, g) == [pub EXCEPT ![cname] = g]

\* An unpublish that forgets the del.
Deleted_Kept(pub, name) == pub

\* unpublish: del self.published[name]
Deleted(pub, name) == [pub EXCEPT ![name] = 0]

\* The first group id the daemon has not handed out (0: none left).
NextGroup ==
    IF \E g \in GroupIds : groups[g].st = "free"
    THEN CHOOSE g \in GroupIds :
            /\ groups[g].st = "free"
            /\ \A h \in GroupIds : groups[h].st = "free" => g <= h
    ELSE 0

\* A method returns v to its caller.
Return(v) ==
    /\ result' = v
    /\ pc' = ret

\* A method that catches every D-Bus error and answers False instead.
Raise_Swallowed(e) ==
    /\ result' = Returned("False")
    /\ pc' = ret

\* A method raises e: a caller of the instance sees the exception; in
\* main() and in a signal handler nothing catches it and the process ends
\* with a traceback.
Raise(e) ==
    /\ result' = Raised(e)
    /\ pc' = IF ret = "idle" THEN "idle" ELSE "crashed"

\* available()
Available ==
    /\ pc = "available"
    /\ \E o \in ServerOutcomes :
        /\ calls' = calls \cup {<<"GetVersionString", "-", 0, o>>}
        /\ faults' = Fault(o)
        /\ result' = AvailableResult(o)
        /\ pc' = IF AvailableResult(o).kind = "raise" /\ ret # "idle"
                 THEN "crashed" ELSE ret
    /\ UNCHANGED <<up, outages, groups, published, publisher, handler, ret, self,
                   i, grp, todo, op, pubBefore, cnames, force, failed, outcome>>
    /\ UNCHANGED encVars

\* publish_cname: what the collision check logs for a verdict.
CheckLog(verdict, cname) ==
    IF verdict = "conflict" THEN {<<"logging.error", cname, 0, "-">>}
    ELSE IF verdict = "warn" THEN {<<"logging.warning", cname, 0, "-">>}
    ELSE {}

\* A publish_cname that runs the collision check whatever force says.
PublishEntry_AlwaysCheck(f) == "pub_check"

\* A publish_cname that never runs the collision check.
PublishEntry_NeverCheck(f) == "pub_new"

\* publish_cname, "if not force:": where the method starts.
PublishEntry(f) == IF ~f THEN "pub_check" ELSE "pub_new"

\* publish_cname, "if not force": resolve and classify.
PublishCheck ==
    /\ pc = "pub_check"
    /\ \E o \in ResolveOutcomes :
        /\ calls' = calls \cup {<<"ResolveHostName", op.arg, 0, o>>}
                         \cup CheckLog(CollisionVerdict(Resolve(o), LocalIdentity), op.arg)
        /\ faults' = Fault(o)
        /\ IF CollisionVerdict(Resolve(o), LocalIdentity) = "conflict"
           THEN Return(Returned("False"))
           ELSE /\ pc' = "pub_new"
                /\ UNCHANGED result
    /\ UNCHANGED <<up, outages, groups, published, publisher, handler, ret, self,
                   i, grp, todo, op, pubBefore, cnames, force, failed, outcome>>
    /\ UNCHANGED encVars

\* publish_cname: self.server.EntryGroupNew()
PublishEntryGroupNew ==
    /\ pc = "pub_new"
    /\ NextGroup # 0
    /\ \E o \in ServerOutcomes :
        /\ calls' = calls \cup {<<"EntryGroupNew", "-", 0, o>>}
        /\ faults' = Fault(o)
        /\ IF o = "ok"
           THEN /\ groups' = [groups EXCEPT ![NextGroup] = EmptyGroup]
                /\ grp' = NextGroup
                /\ pc' = "pub_add"
                /\ UNCHANGED result
           ELSE /\ Raise(o)
                /\ UNCHANGED <<groups, grp>>
    /\ UNCHANGED <<up, outages, published, publisher, handler, ret, self, i, todo,
                   op, pubBefore, cnames, force, failed, outcome>>
    /\ UNCHANGED encVars

\* publish_cname: group.AddRecord(...)
PublishAddRecord ==
    /\ pc = "pub_add"
    /\ \E o \in GroupOutcomes(grp) :
        /\ calls' = calls \cup {<<"AddRecord", op.arg, grp, o>>}
        /\ faults' = Fault(o)
        /\ IF o = "ok"
           THEN /\ groups' = [groups EXCEPT ![grp] = [st |-> "added", alias |-> op.arg]]
                /\ pc' = "pub_commit"
                /\ UNCHANGED result
           ELSE /\ Raise(o)
                /\ UNCHANGED groups
    /\ UNCHANGED <<up, outages, published, publisher, handler, ret, self, i, grp,
                   todo, op, pubBefore, cnames, force, failed, outcome>>
    /\ UNCHANGED encVars

\* A publish_cname that stores the group before it calls Commit.
PublishCommit_InsertFirst ==
    /\ pc = "pub_commit"
    /\ published' = [published EXCEPT ![self] = Inserted(published[self], op.arg, grp)]
    /\ \E o \in GroupOutcomes(grp) :
        /\ calls' = calls \cup {<<"Commit", op.arg, grp, o>>}
        /\ faults' = Fault(o)
        /\ IF o = "ok"
           THEN /\ groups' = [groups EXCEPT ![grp].st = "live"]
                /\ pc' = "pub_insert"
                /\ UNCHANGED result
           ELSE /\ Raise(o)
                /\ UNCHANGED groups
    /\ UNCHANGED <<up, outages, publisher, handler, ret, self, i, grp,
                   todo, op, pubBefore, cnames, force, failed, outcome>>
    /\ UNCHANGED encVars

\* publish_cname: group.Commit()
PublishCommit ==
    /\ pc = "pub_commit"
    /\ \E o \in GroupOutcomes(grp) :
        /\ calls' = calls \cup {<<"Commit", op.arg, grp, o>>}
        /\ faults' = Fault(o)
        /\ IF o = "ok"
           THEN /\ groups' = [groups EXCEPT ![grp].st = "live"]
                /\ pc' = "pub_insert"
                /\ UNCHANGED result
           ELSE /\ Raise(o)
                /\ UNCHANGED groups
    /\ UNCHANGED <<up, outages, published, publisher, handler, ret, self, i, grp,
                   todo, op, pubBefore, cnames, force, failed, outcome>>
    /\ UNCHANGED encVars

\* publish_cname: self.published[cname] = group; return True
PublishInsert ==
    /\ pc = "pub_insert"
    /\ published' = [published EXCEPT ![self] = Inserted(published[self], op.arg, grp)]
    /\ Return(Returned("True"))
    /\ UNCHANGED <<up, outages, faults, groups, publisher, handler, ret, self, i,
                   grp, todo, op, calls, pubBefore, cnames, force, failed, outcome>>
    /\ UNCHANGED encVars

\* __del__: one turn of "for group in self.published.itervalues(): group.Reset()".
\* The dictionary's iteration order is arbitrary.
DelStep ==
    /\ pc = "del"
    /\ \/ /\ todo = {}
          /\ Return(Returned("None"))
          /\ UNCHANGED <<faults, groups, todo, calls>>
       \/ \E n \in todo : \E o \in GroupOutcomes(published[self][n]) :
          /\ calls' = calls \cup {<<"Reset", n, published[self][n], o>>}
          /\ faults' = Fault(o)
          /\ IF o = "ok"
             THEN /\ groups' = [groups EXCEPT ![published[self][n]] = EmptyGroup]
                  /\ todo' = todo \ {n}
                  /\ UNCHANGED <<pc, result>>
             ELSE /\ IF DelOnError(o) = "raise"
                     THEN Raise(o)
                     ELSE Return(Returned("None"))
                  /\ todo' = {}
                  /\ UNCHANGED groups
    /\ UNCHANGED <<up, outages, published, publisher, handler, ret, self, i, grp,
                   op, pubBefore, cnames, force, failed, outcome>>
    /\ UNCHANGED encVars

(***************************************************************************)
(* The service loop, main(), and handle_signals().                         *)
(***************************************************************************)
\* "while True: if not publisher or not publisher.available():"
LoopTest ==
    /\ pc = "loop"
    /\ IF publisher = 0
       THEN /\ pc' = "construct"
            /\ UNCHANGED <<ret, self, op, calls, pubBefore>>
       ELSE /\ pc' = "available"
            /\ ret' = "loop_avail"
            /\ self' = publisher
            /\ op' = [name |-> "available", arg |-> "-", force |-> FALSE]
            /\ calls' = {}
            /\ pubBefore' = published[publisher]
    /\ result' = NoResult
    /\ UNCHANGED <<envVars, published, mainVars, grp, todo>>
    /\ UNCHANGED encVars

\* A loop that publishes the batch again on every iteration.
AfterAvailable_Republish(val) == IF val = "True" THEN "for" ELSE "construct"

\* "if not publisher or not publisher.available():" once available() returned.
AfterAvailable(val) == IF val = "True" THEN "sleep" ELSE "construct"

\* available() returned: reconnect on False, else sleep.
LoopAvailable ==
    /\ pc = "loop_avail"
    /\ pc' = AfterAvailable(result.val)
    /\ UNCHANGED <<envVars, published, mainVars, ret, self, grp, todo, op, calls,
                   result, pubBefore>>
    /\ UNCHANGED encVars

\* "publisher = AvahiPublisher(args.ttl)": __init__ connects and asks
\* GetHostNameFqdn; an error is raised into main().
Construct ==
    /\ pc = "construct"
    /\ publisher < MaxEngines
    /\ op' = [name |-> "__init__", arg |-> "-", force |-> FALSE]
    /\ \E o \in ServerOutcomes :
        /\ calls' = {<<"GetHostNameFqdn", "-", 0, o>>}
        /\ faults' = Fault(o)
        /\ IF o = "ok"
           THEN /\ publisher' = publisher + 1
                /\ published' = [published EXCEPT ![publisher + 1] = NoKeys]
                /\ pc' = "bind"
                /\ i' = 1
                /\ result' = Returned("None")
           ELSE /\ pc' = "crashed"
                /\ result' = Raised(o)
                /\ UNCHANGED <<publisher, published, i>>
    /\ UNCHANGED <<up, outages, groups, handler, ret, self, grp, todo, pubBefore,
                   cnames, force, failed, outcome>>
    /\ UNCHANGED encVars

\* The three signal.signal(...) calls, one per step.  After the third no
\* reference to the instance before this one is left: it is finalized, and
\* its groups went away with the daemon it was connected to.
BindSignal ==
    /\ pc = "bind"
    /\ handler' = [handler EXCEPT ![SignalOrder[i]] = publisher]
    /\ IF i < 3
       THEN /\ i' = i + 1
            /\ UNCHANGED <<pc, published, failed, outcome>>
       ELSE /\ i' = 1
            /\ pc' = "for"
            /\ published' = [e \in Engines |->
                               IF e = publisher THEN published[e] ELSE NoKeys]
            /\ failed' = {}
            /\ outcome' = <<>>
    /\ UNCHANGED <<envVars, publisher, ret, self, grp, todo, op, calls, result,
                   pubBefore, cnames, force>>
    /\ UNCHANGED encVars

\* "for cname in args.cnames: status = publisher.publish_cname(cname, args.force)"
ForCnames ==
    /\ pc = "for"
    /\ IF i <= Len(cnames)
       THEN /\ op' = [name |-> "publish_cname", arg |-> cnames[i], force |-> force]
            /\ pc' = PublishEntry(force)
            /\ ret' = "for_status"
            /\ self' = publisher
            /\ calls' = {}
            /\ result' = NoResult
            /\ pubBefore' = published[publisher]
            /\ grp' = 0
       ELSE /\ pc' = "count"
            /\ UNCHANGED <<op, ret, self, calls, result, pubBefore, grp>>
    /\ UNCHANGED <<envVars, published, mainVars, todo>>
    /\ UNCHANGED encVars

\* A for loop that stops at the first failed name.
BatchContinues_Break(status) == status

\* Whether the for loop goes on to the next name after a status.
BatchContinues(status) == TRUE

\* "if not status: log.error(...); continue"
ForStatus ==
    /\ pc = "for_status"
    /\ failed' = IF result.val = "True" THEN failed ELSE failed \cup {i}
    /\ outcome' = Append(outcome,
                    IF \E c \in calls : c[1] = "ResolveHostName"
                    THEN Resolve((CHOOSE c \in calls : c[1] = "ResolveHostName")[4])
                    ELSE "unchecked")
    /\ i' = i + 1
    /\ pc' = IF BatchContinues(result.val = "True") THEN "for" ELSE "count"
    /\ UNCHANGED <<envVars, published, publisher, handler, cnames, force, ret, self,
                   grp, todo, op, calls, result, pubBefore>>
    /\ UNCHANGED encVars

\* "if publisher.count() == len(args.cnames): ... else: ..."
CountCheck ==
    /\ pc = "count"
    /\ op' = [name |-> "count", arg |-> "-", force |-> FALSE]
    /\ result' = ReturnedInt(Count(published[publisher]))
    /\ calls' = {}
    /\ pc' = "sleep"
    /\ UNCHANGED <<envVars, published, mainVars, ret, self, grp, todo, pubBefore>>
    /\ UNCHANGED encVars

\* sleep(1)
Sleep ==
    /\ pc = "sleep"
    /\ pc' = "loop"
    /\ UNCHANGED <<envVars, published, mainVars, ret, self, grp, todo, op, calls,
                   result, pubBefore>>
    /\ UNCHANGED encVars

\* A termination signal arrives between two steps.  With no handler
\* installed the default action ends the process; otherwise
\* handle_signals(publisher, ...) calls publisher.__del__() on the
\* instance the handler was bound to.
Signal(sig) ==
    /\ pc \notin Terminal
    /\ ret # "sig_exit"
    /\ IF handler[sig] = 0
       THEN /\ pc' = "killed"
            /\ UNCHANGED <<ret, self, todo, op, calls, result, pubBefore>>
       ELSE /\ pc' = "del"
            /\ ret' = "sig_exit"
            /\ self' = handler[sig]
            /\ todo' = Keys(published[handler[sig]])
            /\ op' = [name |-> "__del__", arg |-> sig, force |-> FALSE]
            /\ calls' = {}
            /\ result' = NoResult
            /\ pubBefore' = published[handler[sig]]
    /\ UNCHANGED <<envVars, published, mainVars, grp>>
    /\ UNCHANGED encVars

\* handle_signals: sleep(1); os._exit(0)
SignalExit ==
    /\ pc = "sig_exit"
    /\ pc' = "exited"
    /\ UNCHANGED <<envVars, published, mainVars, ret, self, grp, todo, op, calls,
                   result, pubBefore>>
    /\ UNCHANGED encVars

CnamesInputs == UNION {[1..k -> Names] : k \in 1..MaxCnames}

Init ==
    /\ up \in BOOLEAN
    /\ outages = 0
    /\ faults = 0
    /\ groups = [g \in GroupIds |-> FreeGroup]
    /\ published = [e \in Engines |-> NoKeys]
    /\ publisher = 0
    /\ handler = [s \in Signals |-> 0]
    /\ pc = "loop"
    /\ ret = "main"
    /\ self = 0
    /\ i = 1
    /\ grp = 0
    /\ todo = {}
    /\ op = NoOp
    /\ calls = {}
    /\ result = NoResult
    /\ pubBefore = NoKeys
    /\ cnames \in CnamesInputs
    /\ force \in BOOLEAN
    /\ failed = {}
    /\ outcome = <<>>
    /\ text = <<>>
    /\ norm = Unset
    /\ rdata = Unset

Next ==
    \/ ServiceDown
    \/ ServiceUp
    \/ LoopTest
    \/ LoopAvailable
    \/ Available
    \/ Construct
    \/ BindSignal
    \/ ForCnames
    \/ PublishCheck
    \/ PublishEntryGroupNew
    \/ PublishAddRecord
    \/ PublishCommit
    \/ PublishInsert
    \/ ForStatus
    \/ CountCheck
    \/ Sleep
    \/ \E sig \in Signals : Signal(sig)
    \/ DelStep
    \/ SignalExit

Spec == Init /\ [][Next]_vars

(***************************************************************************)
(* One AvahiPublisher instance whose methods are called in any order       *)
(* by a caller that sees what each returns or raises.                      *)
(***************************************************************************)
\* publisher.publish_cname(cname, force)
CallPublish(cname, f) ==
    /\ pc = "idle"
    /\ op' = [name |-> "publish_cname", arg |-> cname, force |-> f]
    /\ pc' = PublishEntry(f)
    /\ calls' = {}
    /\ result' = NoResult
    /\ pubBefore' = published[self]
    /\ grp' = 0
    /\ UNCHANGED <<envVars, published, mainVars, ret, self, todo>>
    /\ UNCHANGED encVars

\* publisher.unpublish(name): self.published[name].Reset(); del self.published[name]
Unpublish(name) ==
    /\ pc = "idle"
    /\ op' = [name |-> "unpublish", arg |-> name, force |-> FALSE]
    /\ pubBefore' = published[self]
    /\ IF published[self][name] = 0
       THEN /\ result' = Raised("KeyError")
            /\ calls' = {}
            /\ UNCHANGED <<faults, groups, published>>
       ELSE \E o \in GroupOutcomes(published[self][name]) :
            /\ calls' = {<<"Reset", name, published[self][name], o>>}
            /\ faults' = Fault(o)
            /\ IF o = "ok"
               THEN /\ groups' = [groups EXCEPT ![published[self][name]] = EmptyGroup]
                    /\ published' = [published EXCEPT
                                       ![self] = Deleted(published[self], name)]
                    /\ result' = Returned("None")
               ELSE /\ result' = Raised(o)
                    /\ UNCHANGED <<groups, published>>
    /\ UNCHANGED <<up, outages, mainVars, pc, ret, self, grp, todo>>
    /\ UNCHANGED encVars

\* publisher.__del__()
CallDel ==
    /\ pc = "idle"
    /\ op' = [name |-> "__del__", arg |-> "-", force |-> FALSE]
    /\ pc' = "del"
    /\ todo' = Keys(published[self])
    /\ calls' = {}
    /\ result' = NoResult
    /\ pubBefore' = published[self]
    /\ UNCHANGED <<envVars, published, mainVars, ret, self, grp>>
    /\ UNCHANGED encVars

\* publisher.available()
CallAvailable ==
    /\ pc = "idle"
    /\ op' = [name |-> "available", arg |-> "-", force |-> FALSE]
    /\ pc' = "available"
    /\ calls' = {}
    /\ result' = NoResult
    /\ pubBefore' = published[self]
    /\ UNCHANGED <<envVars, published, mainVars, ret, self, grp, todo>>
    /\ UNCHANGED encVars

\* publisher.count()
CallCount ==
    /\ pc = "idle"
    /\ op' = [name |-> "count", arg |-> "-", force |-> FALSE]
    /\ result' = ReturnedInt(Count(published[self]))
    /\ calls' = {}
    /\ pubBefore' = published[self]
    /\ UNCHANGED <<envVars, published, mainVars, pc, ret, self, grp, todo>>
    /\ UNCHANGED encVars

\* The instance right after AvahiPublisher(ttl) returned.
EngineInit ==
    /\ up = TRUE
    /\ outages = 0
    /\ faults = 0
    /\ groups = [g \in GroupIds |-> FreeGroup]
    /\ published = [e \in Engines |-> NoKeys]
    /\ publisher = 1
    /\ handler = [s \in Signals |-> 0]
    /\ pc = "idle"
    /\ ret = "idle"
    /\ self = 1
    /\ i = 1
    /\ grp = 0
    /\ todo = {}
    /\ op = [name |-> "__init__", arg |-> "-", force |-> FALSE]
    /\ calls = {<<"GetHostNameFqdn", "-", 0, "ok">>}
    /\ result = Returned("None")
    /\ pubBefore = NoKeys
    /\ cnames = <<>>
    /\ force = FALSE
    /\ failed = {}
    /\ outcome = <<>>
    /\ text = <<>>
    /\ norm = Unset
    /\ rdata = Unset

EngineNext ==
    \/ ServiceDown
    \/ ServiceUp
    \/ \E n \in Names : \E f \in BOOLEAN : CallPublish(n, f)
    \/ PublishCheck
    \/ PublishEntryGroupNew
    \/ PublishAddRecord
    \/ PublishCommit
    \/ PublishInsert
    \/ \E n \in Names : Unpublish(n)
    \/ CallDel
    \/ DelStep
    \/ CallAvailable
    \/ Available
    \/ CallCount

EngineSpec == EngineInit /\ [][EngineNext]_vars

(***************************************************************************)
(* The hostname arguments: local_hostname_arg (cname_service.py) and the   *)
(* record encoder _fqdn_to_rdata (mpublisher.py).  A string is the         *)
(* sequence of its ASCII codes, so that a length byte and a character are  *)
(* values of one kind.                                                     *)
(***************************************************************************)
MaxPrefix == 3
Dot == 46

progVars == <<up, outages, faults, groups, published, publisher, handler, pc, ret,
              self, i, grp, todo, op, calls, result, pubBefore, cnames, force,
              failed, outcome>>

\* str.lower() on ASCII
LowerChar(c) == IF c \in 65..90 THEN c + 32 ELSE c
Lower(s) == [k \in 1..Len(s) |-> LowerChar(s[k])]

\* [a-z0-9] and [a-z0-9_-] under re.I
IsAlnum(c) == c \in (48..57) \cup (65..90) \cup (97..122)
IsLabelChar(c) == IsAlnum(c) \/ c \in {45, 95}

\* s.split("."): the part before the first "." and then the parts of the rest;
\* a string with no "." is its own single part.
RECURSIVE Split(_)
Split(s) ==
    IF \A k \in 1..Len(s) : s[k] # Dot THEN <<s>>
    ELSE LET d == CHOOSE k \in 1..Len(s) :
                      s[k] = Dot /\ \A j \in 1..(k - 1) : s[j] # Dot
         IN  <<SubSeq(s, 1, d - 1)>> \o Split(SubSeq(s, d + 1, Len(s)))

\* One label of the pattern: [a-z0-9][a-z0-9_-]*
LabelMatches(l) ==
    /\ Len(l) >= 1
    /\ IsAlnum(l[1])
    /\ \A k \in 1..Len(l) : IsLabelChar(l[k])

\* ^[a-z0-9][a-z0-9_-]*(?:\.[a-z0-9][a-z0-9_-]*)*\.local with nothing after it
PatternMatches(s) ==
    LET parts == Split(s) IN
        /\ Len(parts) >= 2
        /\ Lower(parts[Len(parts)]) = <<108, 111, 99, 97, 108>>
        /\ \A k \in 1..(Len(parts) - 1) : LabelMatches(parts[k])

\* re.match(pattern + "$", hostname, re.I): "$" also matches before a
\* newline that ends the string.
ReMatch(s) ==
    \/ PatternMatches(s)
    \/ /\ Len(s) >= 1
       /\ s[Len(s)] = 10
       /\ PatternMatches(SubSeq(s, 1, Len(s) - 1))

\* local_hostname_arg(hostname)
LocalHostnameArg(hostname) ==
    IF ~ReMatch(hostname)
    THEN [st |-> "ArgumentTypeError", val |-> <<>>]
    ELSE [st |-> "ok", val |-> Lower(hostname)]

\* The loop of _fqdn_to_rdata over the parts from k on: "if part:" skips an
\* empty part, else chr(len(part)) and part are appended.
RECURSIVE RdataParts(_, _)
RdataParts(parts, k) ==
    IF k > Len(parts) THEN <<>>
    ELSE (IF parts[k] # <<>> THEN <<Len(parts[k])>> \o parts[k] ELSE <<>>)
            \o RdataParts(parts, k + 1)

\* An encoder that forgets the terminating zero byte.
FqdnToRdata_NoTerminator(fqdn) ==
    [st |-> "ok", val |-> RdataParts(Split(fqdn), 1)]

\* _fqdn_to_rdata(fqdn); chr() raises ValueError from 256 on.
FqdnToRdata(fqdn) ==
    LET parts == Split(fqdn) IN
        IF \E k \in 1..Len(parts) : Len(parts[k]) > 255
        THEN [st |-> "ValueError", val |-> <<>>]
        ELSE [st |-> "ok", val |-> RdataParts(parts, 1) \o <<0>>]

\* The command line gives text to local_hostname_arg.
Validate ==
    /\ pc = "parse_args"
    /\ norm.st = "unset"
    /\ norm' = LocalHostnameArg(text)
    /\ UNCHANGED <<text, rdata>>
    /\ UNCHANGED progVars

\* The accepted name is encoded.
Encode ==
    /\ pc = "parse_args"
    /\ norm.st = "ok"
    /\ rdata.st = "unset"
    /\ rdata' = FqdnToRdata(norm.val)
    /\ UNCHANGED <<text, norm>>
    /\ UNCHANGED progVars

PrefixChars == {97, 66, 55, 45, 95, Dot}
LongLabels == {[k \in 1..63 |-> 97], [k \in 1..64 |-> 97]}
Prefixes == UNION {[1..k -> PrefixChars] : k \in 0..MaxPrefix} \cup LongLabels
Suffixes == { <<46, 108, 111, 99, 97, 108>>,
              <<46, 76, 111, 67, 97, 108>>,
              <<46, 108, 111, 99, 97, 108, 10>>,
              <<46, 108, 111, 99, 97, 108, 101>>,
              <<108, 111, 99, 97, 108>> }
TextInputs == {pre \o suf : pre \in Prefixes, suf \in Suffixes}

EncInit ==
    /\ text \in TextInputs
    /\ norm = Unset
    /\ rdata = Unset
    /\ up = TRUE
    /\ outages = 0
    /\ faults = 0
    /\ groups = [g \in GroupIds |-> FreeGroup]
    /\ published = [e \in Engines |-> NoKeys]
    /\ publisher = 0
    /\ handler = [s \in Signals |-> 0]
    /\ pc = "parse_args"
    /\ ret = "main"
    /\ self = 0
    /\ i = 1
    /\ grp = 0
    /\ todo = {}
    /\ op = NoOp
    /\ calls = {}
    /\ result = NoResult
    /\ pubBefore = NoKeys
    /\ cnames = <<>>
    /\ force = FALSE
    /\ failed = {}
    /\ outcome = <<>>

EncNext ==
    \/ Validate
    \/ Encode

EncSpec == EncInit /\ [][EncNext]_vars

(***************************************************************************)
(* Properties.                                                             *)
(***************************************************************************)
RegistrationCalls == {"EntryGroupNew", "AddRecord", "Commit"}

\* The outcomes ResolveHostName gave the running publish_cname.
Resolved == {c[4] : c \in {d \in calls : d[1] = "ResolveHostName"}}

\* The groups the running method called Reset on.
ResetOn == {c[3] : c \in {d \in calls : d[1] = "Reset"}}

\* The methods of the daemon the running method called.
Called == {c[1] : c \in calls}

\* What the Reset on group g was answered.
ResetOutcome(g) == (CHOOSE c \in calls : c[1] = "Reset" /\ c[3] = g)[4]

\* A registration call of the running publish_cname raised.
RegistrationFailed ==
    \E c \in calls : c[1] \in RegistrationCalls /\ c[4] # "ok"

\* The names of the batch whose collision check did not find a third party.
NotConflicting ==
    {cnames[k] : k \in {j \in 1..Len(outcome) : outcome[j] # ThirdParty}}

\* C1: seen by the caller of one instance: count() is the number of keys of
\* self.published; a name is a key right after publish_cname returned True
\* for it; it is no key right after unpublish of it returned, and no name
\* is a key right after the teardown __del__() returned.
C1_CountAndKeys ==
    pc = "idle" =>
        /\ (op.name = "count" /\ result.kind = "return")
              => result.n = Cardinality({n \in Names : published[self][n] # 0})
        /\ (op.name = "publish_cname" /\ result = Returned("True"))
              => published[self][op.arg] # 0
        /\ (op.name = "unpublish" /\ result.kind = "return")
              => published[self][op.arg] = 0
        /\ (op.name = "__del__" /\ result.kind = "return")
              => \A n \in Names : published[self][n] = 0

\* C2: when handle_signals has run its teardown and the process exits, no
\* entry group this process committed is still live at the daemon.
C2_ExitLeavesNoLiveGroup ==
    pc = "exited" => \A g \in GroupIds : groups[g].st # "live"

\* C3: after the connection was lost, a construction that fails because the
\* daemon is still unreachable does not end the process.
C3_FailedReconnectNotFatal ==
    ~ ( /\ pc = "crashed"
        /\ publisher # 0
        /\ op.name = "__init__"
        /\ result = Raised("ServiceUnknown") )

\* C4: a teardown that returned has called Reset on the group of every key
\* of self.published, also when one Reset failed with ServiceUnknown.
C4_TeardownResetsEveryGroup ==
    (pc = "idle" /\ op.name = "__del__" /\ result.kind = "return")
        => \A n \in Keys(pubBefore) : pubBefore[n] \in ResetOn

\* C5: when publish_cname with force returned True for a name that was a key
\* already, every live group of that name is the one self.published holds,
\* so that unpublish or teardown can still reset it.
C5_RepublishLeavesNoDanglingGroup ==
    ( /\ pc = "idle"
      /\ op.name = "publish_cname"
      /\ op.force
      /\ pubBefore[op.arg] # 0
      /\ result = Returned("True") )
        => \A g \in GroupIds :
              (groups[g].st = "live" /\ groups[g].alias = op.arg)
                  => published[self][op.arg] = g

\* C6: publish_cname without force for a name that resolves to an owner
\* other than self.hostname returns False, has called none of
\* EntryGroupNew, AddRecord and Commit, and leaves self.published as it was.
C6_ConflictNotRegistered ==
    (op.name = "publish_cname" /\ ~op.force /\ "other" \in Resolved)
        => /\ pc = "idle"
           /\ result = Returned("False")
           /\ Called \cap RegistrationCalls = {}
           /\ published[self] = pubBefore

C6_Witness ==
    /\ op.name = "publish_cname"
    /\ ~op.force
    /\ "other" \in Resolved
    /\ pc = "idle"
    /\ result = Returned("False")
    /\ Keys(pubBefore) # {}

\* C7: when the for loop of main() over args.cnames has ended without force,
\* publish_cname was called for every name of the batch, the keys of
\* self.published are the names of the batch that did not resolve to a
\* third-party owner, "Failed to publish" was logged for the others, and
\* the count() that follows returns the number of those keys.
C7_BatchSurvivesConflict ==
    /\ (pc = "count" /\ ~force)
          => /\ Len(outcome) = Len(cnames)
             /\ Keys(published[publisher]) = NotConflicting
             /\ failed = {k \in 1..Len(cnames) : outcome[k] = ThirdParty}
    /\ (pc = "sleep" /\ op.name = "count" /\ ~force)
          => result = ReturnedInt(Cardinality(NotConflicting))

C7_Witness ==
    /\ pc = "sleep"
    /\ op.name = "count"
    /\ ~force
    /\ cnames = <<"a.local", "b.local">>
    /\ outcome = <<None, ThirdParty>>
    /\ failed = {2}
    /\ result.n = 1
    /\ published[publisher]["a.local"] # 0
    /\ published[publisher]["b.local"] = 0

\* C8: publish_cname without force for a name that resolves to
\* self.hostname logs a warning and goes on to register: it never returns
\* False, and unless a registration call raises it returns True with the
\* committed group stored under the name.
C8_OwnNameRegistered ==
    (op.name = "publish_cname" /\ ~op.force /\ "self" \in Resolved)
        => /\ "logging.warning" \in Called
           /\ "logging.error" \notin Called
           /\ result # Returned("False")
           /\ pc = "idle" =>
                IF RegistrationFailed
                THEN result.kind = "raise" /\ published[self] = pubBefore
                ELSE /\ result = Returned("True")
                     /\ RegistrationCalls \subseteq Called
                     /\ published[self][op.arg] = grp
                     /\ \A n \in Names \ {op.arg} : published[self][n] = pubBefore[n]

C8_Witness ==
    /\ op.name = "publish_cname"
    /\ ~op.force
    /\ "self" \in Resolved
    /\ pc = "idle"
    /\ result = Returned("True")
    /\ published[self][op.arg] = grp
    /\ groups[grp] = [st |-> "live", alias |-> op.arg]

\* C9: unpublish of a name that is no key of self.published raises
\* KeyError, calls no Reset and leaves self.published as it was; unpublish
\* of a key calls Reset on its group and, when that returned, the group is
\* no longer live and exactly that key is gone.
C9_Unpublish ==
    (op.name = "unpublish" /\ pc = "idle")
        => IF pubBefore[op.arg] = 0
           THEN /\ result = Raised("KeyError")
                /\ calls = {}
                /\ published[self] = pubBefore
           ELSE /\ ResetOn = {pubBefore[op.arg]}
                /\ result # Raised("KeyError")
                /\ result.kind = "return"
                      => /\ groups[pubBefore[op.arg]].st # "live"
                         /\ published[self][op.arg] = 0
                         /\ \A n \in Names \ {op.arg} :
                                published[self][n] = pubBefore[n]
                /\ result.kind = "raise" => published[self] = pubBefore

C9_Witness ==
    /\ op.name = "unpublish"
    /\ pc = "idle"
    /\ pubBefore[op.arg] # 0
    /\ result = Returned("None")
    /\ Keys(published[self]) # {}
    /\ groups[pubBefore[op.arg]].st = "empty"

C9_WitnessAbsent ==
    /\ op.name = "unpublish"
    /\ pc = "idle"
    /\ pubBefore[op.arg] = 0
    /\ Keys(pubBefore) # {}
    /\ result = Raised("KeyError")

\* C10: available() returns True when GetVersionString succeeded, False
\* when it failed with ServiceUnknown and only then, and raises every
\* other error of the call to its caller.
C10_Available ==
    (op.name = "available" /\ pc = "idle")
        => \E o \in {"ok", "ServiceUnknown", "Other"} :
              /\ calls = {<<"GetVersionString", "-", 0, o>>}
              /\ (o = "ok") = (result = Returned("True"))
              /\ (o = "ServiceUnknown") = (result = Returned("False"))
              /\ (o = "Other") = (result = Raised("Other"))

C10_Witness ==
    /\ op.name = "available"
    /\ pc = "idle"
    /\ up
    /\ result = Raised("Other")

C10_WitnessGone ==
    /\ op.name = "available"
    /\ pc = "idle"
    /\ ~up
    /\ result = Returned("False")

\* The positions inside publish_cname.
PublishPcs == {"pub_check", "pub_new", "pub_add", "pub_commit", "pub_insert"}

\* Every call the running method made was answered ServiceUnknown.
DaemonGone == calls # {} /\ \A c \in calls : c[4] = "ServiceUnknown"

\* C11: a publish_cname (with or without force) all of whose calls found
\* the daemon gone ends by raising ServiceUnknown to its caller: it returns
\* neither True nor False and self.published keeps its value.
C11_PublishOnGoneDaemonRaises ==
    (op.name = "publish_cname" /\ DaemonGone)
        => /\ published[self] = pubBefore
           /\ result.kind # "return"
           /\ pc \in {"idle", "pub_new"}
           /\ ("EntryGroupNew" \in Called \/ pc = "idle")
                 => (pc = "idle" /\ result = Raised("ServiceUnknown"))

C11_Witness ==
    /\ op.name = "publish_cname"
    /\ ~op.force
    /\ ~up
    /\ pc = "idle"
    /\ calls = { <<"ResolveHostName", op.arg, 0, "ServiceUnknown">>,
                 <<"EntryGroupNew", "-", 0, "ServiceUnknown">> }
    /\ result = Raised("ServiceUnknown")

C11_WitnessForced ==
    /\ op.name = "publish_cname"
    /\ op.force
    /\ ~up
    /\ pc = "idle"
    /\ result = Raised("ServiceUnknown")
    /\ Keys(pubBefore) # {}

\* C12: a teardown raises to its caller exactly when a Reset failed with an
\* error other than ServiceUnknown, and then it raises that error; a Reset
\* that failed with ServiceUnknown is swallowed and the teardown returns.
C12_TeardownSwallowsOnlyGone ==
    (op.name = "__del__" /\ pc = "idle")
        => /\ result.kind = "raise"
                <=> \E g \in ResetOn : ResetOutcome(g) \notin {"ok", "ServiceUnknown"}
           /\ result.kind = "raise"
                => \E g \in ResetOn : result = Raised(ResetOutcome(g))
           /\ (\E g \in ResetOn : ResetOutcome(g) = "ServiceUnknown")
                => result = Returned("None")

C12_Witness ==
    /\ op.name = "__del__"
    /\ pc = "idle"
    /\ result = Raised("Other")
    /\ Cardinality(Keys(pubBefore)) >= 2

C12_WitnessGone ==
    /\ op.name = "__del__"
    /\ pc = "idle"
    /\ result = Returned("None")
    /\ \E g \in ResetOn : ResetOutcome(g) = "ServiceUnknown"

\* C13: a publish_cname without force whose ResolveHostName failed with an
\* unexpected error raises that error and issues no registration call.
C13_ResolveErrorPropagated ==
    (op.name = "publish_cname" /\ ~op.force /\ "Other" \in Resolved)
        => /\ Called \cap RegistrationCalls = {}
           /\ pc = "idle" => result = Raised("Other")

\* C14: in main(), a registration call that fails for one name while the
\* daemon is reachable does not keep the names after it from being
\* published: the process does not end with names of the batch left.
C14_RegistrationErrorKeepsBatch ==
    ~ ( /\ pc = "crashed"
        /\ up
        /\ op.name = "publish_cname"
        /\ RegistrationFailed
        /\ i < Len(cnames) )

\* C15: publish_cname changes self.published only by storing the group it
\* committed under the name, after Commit succeeded; when it returns False
\* or raises, self.published is what it was when the method was called.
C15_InsertOnlyAfterCommit ==
    op.name = "publish_cname"
        => /\ published[self] # pubBefore
                => /\ <<"Commit", op.arg, grp, "ok">> \in calls
                   /\ published[self][op.arg] = grp
                   /\ \A n \in Names \ {op.arg} : published[self][n] = pubBefore[n]
           /\ (result # Returned("True") \/ RegistrationFailed \/ "other" \in Resolved)
                => published[self] = pubBefore

C15_Witness ==
    /\ op.name = "publish_cname"
    /\ pc = "idle"
    /\ <<"Commit", op.arg, grp, "Other">> \in calls
    /\ result = Raised("Other")
    /\ Keys(pubBefore) # {}

C15_WitnessStored ==
    /\ op.name = "publish_cname"
    /\ pc = "idle"
    /\ result = Returned("True")
    /\ published[self] # pubBefore

\* C16: without force, publish_cname has called ResolveHostName for the
\* name before any of EntryGroupNew, AddRecord and Commit; with force it
\* calls no ResolveHostName and starts with EntryGroupNew.
C16_ResolveBeforeRegistration ==
    op.name = "publish_cname"
        => IF op.force
           THEN /\ "ResolveHostName" \notin Called
                /\ pc # "pub_check"
                /\ (calls = {} /\ pc # "idle") => pc = "pub_new"
           ELSE /\ Called \cap RegistrationCalls # {}
                     => \E c \in calls : c[1] = "ResolveHostName" /\ c[2] = op.arg
                /\ pc \in PublishPcs \ {"pub_check"} => "ResolveHostName" \in Called
                /\ pc = "pub_check" => calls = {}

C16_Witness ==
    /\ op.name = "publish_cname"
    /\ ~op.force
    /\ pc = "pub_commit"
    /\ Called = {"ResolveHostName", "EntryGroupNew", "AddRecord"}

C16_WitnessForced ==
    /\ op.name = "publish_cname"
    /\ op.force
    /\ pc = "idle"
    /\ result = Returned("True")
    /\ Called = RegistrationCalls

\* C18: in main(), whenever the instance held by publisher has a key in
\* self.published, or a publish_cname is running on it, the handlers of
\* SIGTERM, SIGINT and SIGQUIT are all bound to that instance.
C18_HandlersBoundToOwner ==
    ( /\ publisher # 0
      /\ \/ Keys(published[publisher]) # {}
         \/ pc \in PublishPcs )
        => \A sig \in Signals : handler[sig] = publisher

C18_Witness ==
    /\ publisher = 2
    /\ Keys(published[2]) # {}
    /\ \A sig \in Signals : handler[sig] = 2

\* The steps main() takes in an iteration in which available() is True.
IdleIteration ==
    \/ pc = "loop" /\ publisher # 0
    \/ pc = "available" /\ ret = "loop_avail"
    \/ pc = "loop_avail" /\ result = Returned("True")
    \/ pc = "sleep"

\* C19: a step of an iteration of main() in which available() returns True
\* constructs nothing, starts no publish_cname and leaves self.published
\* and publisher alone; a publish_cname starts only in the for loop, which
\* is entered only after the handlers were bound for an instance that was
\* just constructed.
C19_PublishOnlyAfterConstruct ==
    [][ /\ IdleIteration
            => /\ published' = published
               /\ publisher' = publisher
               /\ failed' = failed
               /\ pc' \notin PublishPcs \cup {"construct", "bind", "for"}
        /\ (pc' \in PublishPcs /\ pc \notin PublishPcs) => pc = "for"
        /\ (pc' = "for" /\ pc \notin {"for", "for_status"}) => pc = "bind"
        /\ (pc' = "bind" /\ pc # "bind")
              => (pc = "construct" /\ publisher' = publisher + 1)
      ]_vars

C19_Witness ==
    /\ pc = "sleep"
    /\ op.name = "available"
    /\ result = Returned("True")
    /\ failed # {}
    /\ Count(published[publisher]) < Len(cnames)

\* Reading length-prefixed labels from position k up to the zero byte.
RECURSIVE Decode(_, _)
Decode(bytes, k) ==
    IF k > Len(bytes) THEN <<>>
    ELSE IF bytes[k] = 0 \/ k + bytes[k] > Len(bytes) THEN <<>>
    ELSE <<SubSeq(bytes, k + 1, k + bytes[k])>> \o Decode(bytes, k + 1 + bytes[k])

\* ".".join(labels)
RECURSIVE Join(_, _)
Join(labels, k) ==
    IF k > Len(labels) THEN <<>>
    ELSE IF k = Len(labels) THEN labels[k]
    ELSE labels[k] \o <<Dot>> \o Join(labels, k + 1)

RECURSIVE TotalLen(_, _)
TotalLen(labels, k) ==
    IF k > Len(labels) THEN 0 ELSE Len(labels[k]) + TotalLen(labels, k + 1)

\* The labels of name are between 1 and 63 bytes long.
LabelsWithinLimit(name) ==
    \A k \in 1..Len(Split(name)) : Len(Split(name)[k]) \in 1..63

\* C17: for an accepted hostname with no label over 63 bytes the encoder
\* returns, label by label in order, a byte holding the label's length and
\* then the label, and one zero byte at the end; decoding that and encoding
\* the result again gives the same bytes.
C17_EncoderWireFormat ==
    (rdata.st # "unset" /\ LabelsWithinLimit(norm.val))
        => /\ rdata.st = "ok"
           /\ rdata.val[Len(rdata.val)] = 0
           /\ Decode(rdata.val, 1) = Split(norm.val)
           /\ Len(rdata.val) = TotalLen(Split(norm.val), 1) + Len(Split(norm.val)) + 1
           /\ FqdnToRdata(Join(Decode(rdata.val, 1), 1)) = rdata

C17_Witness ==
    /\ text = <<66, 45, 55, 46, 76, 111, 67, 97, 108>>
    /\ norm = [st |-> "ok", val |-> <<98, 45, 55, 46, 108, 111, 99, 97, 108>>]
    /\ rdata = [st |-> "ok", val |-> <<3, 98, 45, 55, 5, 108, 111, 99, 97, 108, 0>>]

C17_WitnessLimit ==
    /\ rdata.st = "ok"
    /\ LabelsWithinLimit(norm.val)
    /\ rdata.val[1] = 63

\* C20: a hostname local_hostname_arg accepts has no label longer than 63
\* bytes.
C20_ValidatorLabelLimit ==
    norm.st = "ok" => \A k \in 1..Len(Split(norm.val)) : Len(Split(norm.val)[k]) <= 63

====
